---- MODULE Spec2Model ----
(***************************************************************************)
(* Model of crates/bevy_winit/src/winit_windows.rs: the WinitWindows       *)
(* registry (windows, entity_to_winit, winit_to_entity), create_window,    *)
(* get_window, get_window_entity, remove_window, and the free functions    *)
(* get_selected_videomode, attempt_grab, winit_window_position and         *)
(* select_monitor.                                                         *)
(*                                                                         *)
(* The registry is !Send/!Sync and every method takes &self or &mut self,  *)
(* so each call runs to completion before the next one starts: one action  *)
(* per call.  The platform (winit) is the environment: the id it gives a   *)
(* new window and the answer it gives to each request are inputs of the    *)
(* action that issues the request.                                         *)
(*                                                                         *)
(* Two build targets are covered, told apart by the variable winrt:        *)
(* cfg(all(target_os = "windows", __WINRT__)) and every other native       *)
(* target.  The blocks under cfg(target_arch = "wasm32") (lines 299-321,   *)
(* 411-422, 428-432) belong to neither and are not part of the model.      *)
(* Lines 146-297 translate window attributes one to one (level, theme,     *)
(* title, size constraints, debug output) and decide nothing: the creation *)
(* request of the model carries fullscreen, position and surface size.     *)
(* tracing::warn! calls change no state and are left out.                  *)
(***************************************************************************)
EXTENDS Integers, Sequences, FiniteSets, TLC

VARIABLES
    winrt,            \* the build: TRUE for cfg(all(target_os = "windows", __WINRT__))
    windows,          \* WinitWindows::windows: WindowId -> stored window handle
    entity_to_winit,  \* WinitWindows::entity_to_winit: Entity -> WindowId
    winit_to_entity,  \* WinitWindows::winit_to_entity: WindowId -> Entity
    nextSerial,       \* number of the next window the platform creates
    call,             \* the last call and its arguments
    ret,              \* what the last call returned
    request,          \* the creation request the last call sent to the platform, if any
    trace,            \* the platform calls and map insertions of the last call, in order
    queries,          \* the calls of select_monitor, get_selected_videomode and
                      \* winit_window_position the last call made, in order
    pre,              \* the three maps as they were when the last call started
    created,          \* history: Entity -> the handle its last successful create_window
                      \* made, forgotten when remove_window is called for the entity
    overwritten       \* history: some create_window succeeded for a registered entity

vars == <<winrt, windows, entity_to_winit, winit_to_entity, nextSerial,
          call, ret, request, trace, queries, pre, created, overwritten>>

-----------------------------------------------------------------------------
(* Bounds *)

MaxEntities == 2
MaxWindowIds == 2
MaxCreates == 2

Entities == 1..MaxEntities
WindowIds == 1..MaxWindowIds

-----------------------------------------------------------------------------
(* Option and Result *)

None == [some |-> FALSE]
Some(v) == [some |-> TRUE, val |-> v]

Ok(v) == [ok |-> TRUE, val |-> v]
Err(e) == [ok |-> FALSE, err |-> e]

\* Option::unwrap_or
unwrap_or(opt, default) == IF opt.some THEN opt.val ELSE default

\* HashMap::insert / HashMap::remove on a map kept as a function
MapInsert(m, k, v) == [x \in DOMAIN m \cup {k} |-> IF x = k THEN v ELSE m[x]]
MapRemove(m, k) == [x \in DOMAIN m \ {k} |-> m[x]]
EmptyMap == [x \in {} |-> 0]

Min(S) == CHOOSE x \in S : \A y \in S : x <= y

\* one entry of trace or queries: a request to the platform, a map insertion or
\* a call of a free function, with its argument and its answer
Event(c, a, r) == [call |-> c, arg |-> a, res |-> r]

-----------------------------------------------------------------------------
(* Values of bevy_window and winit that the functions read *)

\* MonitorSelection
SelCurrent == [kind |-> "Current", n |-> 0, entity |-> 0]
SelPrimary == [kind |-> "Primary", n |-> 0, entity |-> 0]
SelIndex(n) == [kind |-> "Index", n |-> n, entity |-> 0]
SelEntity(e) == [kind |-> "Entity", n |-> 0, entity |-> e]

\* VideoModeSelection
VmsCurrent ==
    [kind |-> "Current", width |-> 0, height |-> 0,
     refresh_rate_millihertz |-> 0, bit_depth |-> 0]
VmsSpecific(w, h, rate, depth) ==
    [kind |-> "Specific", width |-> w, height |-> h,
     refresh_rate_millihertz |-> rate, bit_depth |-> depth]

\* winit VideoMode: the refresh rate and the bit depth are Option<NonZero>
VideoMode(w, h, rate, depth) ==
    [width |-> w, height |-> h, refresh_rate_millihertz |-> rate, bit_depth |-> depth]

\* WindowMode
Windowed ==
    [kind |-> "Windowed", monitor_selection |-> SelCurrent,
     video_mode_selection |-> VmsCurrent]
BorderlessFullscreen(sel) ==
    [kind |-> "BorderlessFullscreen", monitor_selection |-> sel,
     video_mode_selection |-> VmsCurrent]
Fullscreen(sel, vms) ==
    [kind |-> "Fullscreen", monitor_selection |-> sel, video_mode_selection |-> vms]

\* WindowPosition
Automatic == [kind |-> "Automatic", monitor_selection |-> SelCurrent, at |-> <<0, 0>>]
Centered(sel) == [kind |-> "Centered", monitor_selection |-> sel, at |-> <<0, 0>>]
At(x, y) == [kind |-> "At", monitor_selection |-> SelCurrent, at |-> <<x, y>>]

\* winit Fullscreen
Borderless(monitor) == [kind |-> "Borderless", monitor |-> monitor, video_mode |-> None]
Exclusive(monitor, video_mode) ==
    [kind |-> "Exclusive", monitor |-> Some(monitor), video_mode |-> Some(video_mode)]

\* Scale factors are kept in hundredths (100 is 1.0); the values used are exact
\* in binary floating point, so the f64 products of the code are exact as well.
ScaleUnit == 100

-----------------------------------------------------------------------------
(* WinitMonitors: a list of (monitor, owning entity) pairs *)

nth(monitors, n) ==
    IF n < Len(monitors) THEN Some(monitors[n + 1].monitor) ELSE None

find_entity(monitors, entity) ==
    LET hits == {i \in 1..Len(monitors) : monitors[i].entity = entity}
    IN  IF hits = {} THEN None ELSE Some(monitors[Min(hits)].monitor)

-----------------------------------------------------------------------------
(* select_monitor *)

\* mutant: Primary without a primary monitor falls back to the first monitor
select_monitor_primary_falls_back(monitors, primary_monitor, current_monitor, monitor_selection) ==
    CASE monitor_selection.kind = "Current" -> current_monitor
      [] monitor_selection.kind = "Primary" ->
            IF primary_monitor.some THEN primary_monitor ELSE nth(monitors, 0)
      [] monitor_selection.kind = "Index" -> nth(monitors, monitor_selection.n)
      [] monitor_selection.kind = "Entity" -> find_entity(monitors, monitor_selection.entity)

\* lines 522-541
select_monitor(monitors, primary_monitor, current_monitor, monitor_selection) ==
    CASE monitor_selection.kind = "Current" -> current_monitor
      [] monitor_selection.kind = "Primary" -> primary_monitor
      [] monitor_selection.kind = "Index" -> nth(monitors, monitor_selection.n)
      [] monitor_selection.kind = "Entity" -> find_entity(monitors, monitor_selection.entity)

-----------------------------------------------------------------------------
(* get_selected_videomode *)

\* mutant: the bit depth is not compared
mode_matches_ignores_depth(mode, specified) ==
    /\ mode.width = specified.width
    /\ mode.height = specified.height
    /\ unwrap_or(mode.refresh_rate_millihertz, 0) = specified.refresh_rate_millihertz

\* the closure of Iterator::find at lines 398-407
mode_matches(mode, specified) ==
    /\ mode.width = specified.width
    /\ mode.height = specified.height
    /\ unwrap_or(mode.refresh_rate_millihertz, 0) = specified.refresh_rate_millihertz
    /\ unwrap_or(mode.bit_depth, 0) = specified.bit_depth

get_selected_videomode(monitor, selection) ==
    IF selection.kind = "Current"
    THEN monitor.current_video_mode
    ELSE LET hits == {i \in 1..Len(monitor.video_modes) :
                          mode_matches(monitor.video_modes[i], selection)}
         IN  IF hits = {} THEN None ELSE Some(monitor.video_modes[Min(hits)])

-----------------------------------------------------------------------------
(* winit_window_position *)

\* f64::round: half away from zero; the argument is num / den with den > 0
RoundDiv(num, den) ==
    IF num >= 0 THEN (2 * num + den) \div (2 * den)
    ELSE -((2 * (-num) + den) \div (2 * den))

\* LogicalSize::to_physical::<u32> on one axis: logical * scale_factor, rounded,
\* then cast to u32 (negative values saturate at 0)
to_physical(logical, scale_factor) ==
    LET r == RoundDiv(logical * scale_factor, ScaleUnit) IN IF r < 0 THEN 0 ELSE r

\* mutant: a signed subtraction in place of u32::saturating_sub
saturating_sub_signed(a, b) == a - b

\* u32::saturating_sub
saturating_sub(a, b) == IF a >= b THEN a - b ELSE 0

\* mutant: the f64 sum is truncated (as i32) in place of cast, which rounds
centered_axis_truncates(screen, size, origin) ==
    LET sum == saturating_sub(screen, size) + 2 * origin
    IN  IF sum >= 0 THEN sum \div 2 ELSE -((-sum) \div 2)

\* lines 502-509 on one axis: saturating_sub(..) as f64 / 2. + origin as f64,
\* then PhysicalPosition::cast::<i32>, which rounds
centered_axis(screen, size, origin) ==
    RoundDiv(saturating_sub(screen, size) + 2 * origin, 2)

\* mutant: At is taken relative to the origin of the primary monitor
winit_window_position_at_relative(position, resolution, monitors, primary_monitor, current_monitor) ==
    CASE position.kind = "Automatic" -> None
      [] position.kind = "Centered" ->
            LET maybe_monitor == select_monitor(monitors, primary_monitor, current_monitor,
                                                position.monitor_selection)
            IN  IF ~maybe_monitor.some THEN None
                ELSE LET monitor == maybe_monitor.val IN
                     IF ~monitor.current_video_mode.some THEN None
                     ELSE LET screen_size == monitor.current_video_mode.val
                              monitor_pos == unwrap_or(monitor.position, <<0, 0>>)
                              scale_factor == unwrap_or(resolution.scale_factor_override,
                                                        monitor.scale_factor)
                              width == to_physical(resolution.width, scale_factor)
                              height == to_physical(resolution.height, scale_factor)
                          IN  Some(<<centered_axis(screen_size.width, width, monitor_pos[1]),
                                     centered_axis(screen_size.height, height, monitor_pos[2])>>)
      [] position.kind = "At" ->
            LET origin == IF primary_monitor.some
                          THEN unwrap_or(primary_monitor.val.position, <<0, 0>>)
                          ELSE <<0, 0>>
            IN  Some(<<position.at[1] + origin[1], position.at[2] + origin[2]>>)

\* lines 461-519.  At: an i32 point cast to f64 and back with cast::<i32>, which
\* rounds, comes back as it was
winit_window_position(position, resolution, monitors, primary_monitor, current_monitor) ==
    CASE position.kind = "Automatic" -> None
      [] position.kind = "Centered" ->
            LET maybe_monitor == select_monitor(monitors, primary_monitor, current_monitor,
                                                position.monitor_selection)
            IN  IF ~maybe_monitor.some THEN None
                ELSE LET monitor == maybe_monitor.val IN
                     IF ~monitor.current_video_mode.some THEN None
                     ELSE LET screen_size == monitor.current_video_mode.val
                              monitor_pos == unwrap_or(monitor.position, <<0, 0>>)
                              scale_factor == unwrap_or(resolution.scale_factor_override,
                                                        monitor.scale_factor)
                              width == to_physical(resolution.width, scale_factor)
                              height == to_physical(resolution.height, scale_factor)
                          IN  Some(<<centered_axis(screen_size.width, width, monitor_pos[1]),
                                     centered_axis(screen_size.height, height, monitor_pos[2])>>)
      [] position.kind = "At" -> Some(position.at)

\* Some or None, the answer of a query as trace and queries record it
OptStr(opt) == IF opt.some THEN "Some" ELSE "None"

\* lines 473-485: the monitor lookups winit_window_position makes, in order:
\* select_monitor for Centered only, then the resolved monitor's current_video_mode
position_queries(position, monitors, primary_monitor, current_monitor) ==
    IF position.kind = "Centered"
    THEN LET maybe_monitor == select_monitor(monitors, primary_monitor, current_monitor,
                                             position.monitor_selection)
         IN  <<Event("select_monitor", position.monitor_selection.kind, OptStr(maybe_monitor))>>
             \o (IF maybe_monitor.some
                 THEN <<Event("current_video_mode", maybe_monitor.val.name,
                              OptStr(maybe_monitor.val.current_video_mode))>>
                 ELSE <<>>)
    ELSE <<>>

-----------------------------------------------------------------------------
(* attempt_grab *)

GrabModes == {"None", "Confined", "Locked"}

\* RequestError kinds a native or WinRT platform answers with
ErrorKinds == {"NotSupported", "Os"}
Responses == {"Ok"} \cup ErrorKinds

\* a RequestError: its kind and the request it answers
RequestError(kind, req) == [kind |-> kind, req |-> req]

\* winit_window.set_cursor_grab(mode), the platform answering platform[mode]
set_cursor_grab(platform, mode) ==
    IF platform[mode] = "Ok" THEN Ok("unit")
    ELSE Err(RequestError(platform[mode], mode))

\* mutant: on a double failure the error of the first request is returned
grab_result_first_error(grab_mode, platform) ==
    LET fallback == IF grab_mode = "Confined" THEN "Locked" ELSE "Confined"
        first == set_cursor_grab(platform, grab_mode)
        second == set_cursor_grab(platform, fallback)
        first_call == Event("set_cursor_grab", grab_mode, platform[grab_mode])
    IN  IF grab_mode = "None" \/ first.ok
        THEN [result |-> first, calls |-> <<first_call>>]
        ELSE [result |-> IF second.ok THEN second ELSE first,
              calls |-> <<first_call,
                          Event("set_cursor_grab", fallback, platform[fallback])>>]

\* mutant: no fallback request
grab_result_no_fallback(grab_mode, platform) ==
    [result |-> set_cursor_grab(platform, grab_mode),
     calls |-> <<Event("set_cursor_grab", grab_mode, platform[grab_mode])>>]

\* mutant: after a double failure the requested mode is tried once more
grab_result_retries(grab_mode, platform) ==
    LET fallback == IF grab_mode = "Confined" THEN "Locked" ELSE "Confined"
        first == set_cursor_grab(platform, grab_mode)
        second == set_cursor_grab(platform, fallback)
        first_call == Event("set_cursor_grab", grab_mode, platform[grab_mode])
        second_call == Event("set_cursor_grab", fallback, platform[fallback])
    IN  IF grab_mode = "None" \/ first.ok
        THEN [result |-> first, calls |-> <<first_call>>]
        ELSE IF second.ok
        THEN [result |-> second, calls |-> <<first_call, second_call>>]
        ELSE [result |-> first, calls |-> <<first_call, second_call, first_call>>]

\* lines 434-442: the requests made and the value of grab_result
grab_result(grab_mode, platform) ==
    LET fallback == IF grab_mode = "Confined" THEN "Locked" ELSE "Confined"
        first == set_cursor_grab(platform, grab_mode)
        first_call == Event("set_cursor_grab", grab_mode, platform[grab_mode])
    IN  IF grab_mode = "None" \/ first.ok
        THEN [result |-> first, calls |-> <<first_call>>]
        ELSE \* Result::or_else: the first error is dropped, the closure's result stands
             [result |-> set_cursor_grab(platform, fallback),
              calls |-> <<first_call,
                          Event("set_cursor_grab", fallback, platform[fallback])>>]

\* mutant: NotSupported is returned on WinRT as on every other target
attempt_grab_reports_unsupported(grab_mode, platform) ==
    LET g == grab_result(grab_mode, platform)
    IN  [calls |-> g.calls,
         result |-> IF g.result.ok THEN Ok("unit") ELSE Err(g.result.err)]

\* lines 424-456
attempt_grab(grab_mode, platform) ==
    LET g == grab_result(grab_mode, platform)
    IN  [calls |-> g.calls,
         result |-> IF g.result.ok THEN Ok("unit")
                    ELSE IF winrt /\ g.result.err.kind = "NotSupported" THEN Ok("unit")
                    ELSE Err(g.result.err)]

-----------------------------------------------------------------------------
(* WinitWindows::create_window: the creation request, lines 71-144 *)

DefaultAttributes == [fullscreen |-> None, position |-> None, surface_size |-> None]

\* mutant: the primary monitor is passed as the current monitor too
maybe_selected_monitor_primary_as_current(window, monitors, primary_monitor) ==
    IF winrt THEN None
    ELSE IF window.mode.kind \in {"BorderlessFullscreen", "Fullscreen"}
         THEN select_monitor(monitors, primary_monitor, primary_monitor,
                             window.mode.monitor_selection)
         ELSE None

\* lines 73-95
maybe_selected_monitor(window, monitors, primary_monitor) ==
    IF winrt THEN None
    ELSE IF window.mode.kind \in {"BorderlessFullscreen", "Fullscreen"}
         THEN select_monitor(monitors, primary_monitor, None, window.mode.monitor_selection)
         ELSE None

\* lines 136-142: the logical size, or with an override the f64 physical size
\* (both in hundredths of a pixel)
surface_size(resolution) ==
    IF resolution.scale_factor_override.some
    THEN [kind |-> "Physical",
          width |-> resolution.width * resolution.scale_factor_override.val,
          height |-> resolution.height * resolution.scale_factor_override.val]
    ELSE [kind |-> "Logical",
          width |-> resolution.width * ScaleUnit,
          height |-> resolution.height * ScaleUnit]

\* mutant: exclusive fullscreen with the monitor's current mode, whatever mode
\* the selection matched
fullscreen_attributes_current_mode(attributes, selected_monitor, video_mode_selection) ==
    IF selected_monitor.some
    THEN LET video_mode == get_selected_videomode(selected_monitor.val, video_mode_selection)
         IN  IF video_mode.some /\ selected_monitor.val.current_video_mode.some
             THEN [attributes EXCEPT
                     !.fullscreen = Some(Exclusive(selected_monitor.val,
                                         selected_monitor.val.current_video_mode.val))]
             ELSE attributes
    ELSE [attributes EXCEPT !.fullscreen = Some(Borderless(None))]

\* mutant: no matching mode degrades to borderless fullscreen on the monitor
fullscreen_attributes_borderless_fallback(attributes, selected_monitor, video_mode_selection) ==
    IF selected_monitor.some
    THEN LET video_mode == get_selected_videomode(selected_monitor.val, video_mode_selection)
         IN  IF video_mode.some
             THEN [attributes EXCEPT
                     !.fullscreen = Some(Exclusive(selected_monitor.val, video_mode.val))]
             ELSE [attributes EXCEPT !.fullscreen = Some(Borderless(selected_monitor))]
    ELSE [attributes EXCEPT !.fullscreen = Some(Borderless(None))]

\* mutant: the two fallbacks unified, no monitor degrades to windowed as well
fullscreen_attributes_windowed_fallback(attributes, selected_monitor, video_mode_selection) ==
    IF selected_monitor.some
    THEN LET video_mode == get_selected_videomode(selected_monitor.val, video_mode_selection)
         IN  IF video_mode.some
             THEN [attributes EXCEPT
                     !.fullscreen = Some(Exclusive(selected_monitor.val, video_mode.val))]
             ELSE attributes
    ELSE attributes

\* lines 100-122
fullscreen_attributes(attributes, selected_monitor, video_mode_selection) ==
    IF selected_monitor.some
    THEN LET video_mode == get_selected_videomode(selected_monitor.val, video_mode_selection)
         IN  IF video_mode.some
             THEN [attributes EXCEPT
                     !.fullscreen = Some(Exclusive(selected_monitor.val, video_mode.val))]
             ELSE attributes
    ELSE [attributes EXCEPT !.fullscreen = Some(Borderless(None))]

\* mutant: without a computed position the window is put at the origin
windowed_attributes_origin_default(attributes, window, monitors, primary_monitor) ==
    LET position == IF winrt THEN None
                    ELSE winit_window_position(window.position, window.resolution,
                                               monitors, primary_monitor, None)
    IN  [attributes EXCEPT !.position = IF position.some THEN position
                                        ELSE Some(<<0, 0>>),
                           !.surface_size = Some(surface_size(window.resolution))]

\* lines 123-143
windowed_attributes(attributes, window, monitors, primary_monitor) ==
    LET position == IF winrt THEN None
                    ELSE winit_window_position(window.position, window.resolution,
                                               monitors, primary_monitor, None)
    IN  [attributes EXCEPT !.position = position,
                           !.surface_size = Some(surface_size(window.resolution))]

\* lines 71-144
window_attributes(window, monitors, primary_monitor) ==
    LET selected == maybe_selected_monitor(window, monitors, primary_monitor)
    IN  CASE window.mode.kind = "BorderlessFullscreen" ->
                [DefaultAttributes EXCEPT !.fullscreen = Some(Borderless(selected))]
          [] window.mode.kind = "Fullscreen" ->
                fullscreen_attributes(DefaultAttributes, selected,
                                      window.mode.video_mode_selection)
          [] window.mode.kind = "Windowed" ->
                windowed_attributes(DefaultAttributes, window, monitors, primary_monitor)

\* lines 73-135: the calls of select_monitor, get_selected_videomode and
\* winit_window_position made while the request is built, in order
creation_queries(window, monitors, primary_monitor) ==
    LET selected == maybe_selected_monitor(window, monitors, primary_monitor)
    IN  (IF ~winrt /\ window.mode.kind \in {"BorderlessFullscreen", "Fullscreen"}
         THEN <<Event("select_monitor", window.mode.monitor_selection.kind,
                      OptStr(selected))>>
         ELSE <<>>)
        \o (IF window.mode.kind = "Fullscreen" /\ selected.some
            THEN <<Event("get_selected_videomode", window.mode.video_mode_selection.kind,
                         OptStr(get_selected_videomode(selected.val,
                                                       window.mode.video_mode_selection)))>>
            ELSE <<>>)
        \o (IF window.mode.kind = "Windowed" /\ ~winrt
            THEN <<Event("winit_window_position", window.position.kind,
                         OptStr(winit_window_position(window.position, window.resolution,
                                                      monitors, primary_monitor, None)))>>
                 \o position_queries(window.position, monitors, primary_monitor, None)
            ELSE <<>>)

\* mutant: Fullscreen on a selection that resolves to no monitor is an error
attributes_result_monitor_required(window, monitors, primary_monitor) ==
    IF /\ window.mode.kind = "Fullscreen"
       /\ ~maybe_selected_monitor(window, monitors, primary_monitor).some
    THEN Err(RequestError("NotSupported", "select_monitor"))
    ELSE Ok(window_attributes(window, monitors, primary_monitor))

\* lines 71-144 as a Result: the block has no ? and no return, whatever the
\* lookups answer it ends with the attributes
attributes_result(window, monitors, primary_monitor) ==
    Ok(window_attributes(window, monitors, primary_monitor))

-----------------------------------------------------------------------------
(* WinitWindows::create_window: the calls on the new window, lines 324-354 *)

BoolStr(b) == IF b THEN "true" ELSE "false"

\* mutant: attempt_grab(..)?, an error of attempt_grab leaves create_window
keep_result(result) == result

\* line 330, let _ = attempt_grab(..): whatever attempt_grab returns is dropped
drop_result(result) == Ok("unit")

\* lines 326-331: the grab requests made and what create_window keeps of the result
\* mutant: attempt_grab is called whatever the policy is, None included
creation_grab_unconditional(cursor_options, grab_platform) ==
    LET g == attempt_grab(cursor_options.grab_mode, grab_platform)
    IN  [calls |-> g.calls, result |-> drop_result(g.result)]

creation_grab(cursor_options, grab_platform) ==
    IF cursor_options.grab_mode # "None"
    THEN LET g == attempt_grab(cursor_options.grab_mode, grab_platform)
         IN  [calls |-> g.calls, result |-> drop_result(g.result)]
    ELSE [calls |-> <<>>, result |-> Ok("unit")]

\* lines 333-354: an error of set_cursor_hittest is logged (or, on WinRT, passed over)
\* mutant: set_cursor_hittest is called whatever hit_test is
cursor_visibility_always_hittest(cursor_options, hittest_response) ==
    <<Event("set_cursor_visible", BoolStr(cursor_options.visible), "Ok"),
      Event("set_cursor_hittest", BoolStr(cursor_options.hit_test), hittest_response)>>

cursor_visibility(cursor_options, hittest_response) ==
    <<Event("set_cursor_visible", BoolStr(cursor_options.visible), "Ok")>>
    \o (IF ~cursor_options.hit_test
        THEN <<Event("set_cursor_hittest", BoolStr(cursor_options.hit_test),
                     hittest_response)>>
        ELSE <<>>)

-----------------------------------------------------------------------------
(* WinitWindows::create_window: the registration, lines 356-363 *)

Maps == [windows |-> windows, entity_to_winit |-> entity_to_winit,
         winit_to_entity |-> winit_to_entity]

\* mutant: the reverse map is not written
registry_insert_no_reverse(entity, winit_window) ==
    [entity_to_winit |-> MapInsert(entity_to_winit, entity, winit_window.id),
     winit_to_entity |-> winit_to_entity,
     windows |-> MapInsert(windows, winit_window.id, winit_window)]

\* mutant: entry(entity).or_insert(id), an id already recorded for the entity stays
registry_insert_keep_first(entity, winit_window) ==
    [entity_to_winit |-> IF entity \in DOMAIN entity_to_winit THEN entity_to_winit
                         ELSE MapInsert(entity_to_winit, entity, winit_window.id),
     winit_to_entity |-> MapInsert(winit_to_entity, winit_window.id, entity),
     windows |-> MapInsert(windows, winit_window.id, winit_window)]

\* mutant: the id recorded before for the entity is dropped from the maps
registry_insert_replaces(entity, winit_window) ==
    LET old == IF entity \in DOMAIN entity_to_winit THEN {entity_to_winit[entity]} ELSE {}
        reverse == [x \in DOMAIN winit_to_entity \ old |-> winit_to_entity[x]]
        handles == [x \in DOMAIN windows \ old |-> windows[x]]
    IN  [entity_to_winit |-> MapInsert(entity_to_winit, entity, winit_window.id),
         winit_to_entity |-> MapInsert(reverse, winit_window.id, entity),
         windows |-> MapInsert(handles, winit_window.id, winit_window)]

\* lines 356-363
registry_insert(entity, winit_window) ==
    [entity_to_winit |-> MapInsert(entity_to_winit, entity, winit_window.id),
     winit_to_entity |-> MapInsert(winit_to_entity, winit_window.id, entity),
     windows |-> MapInsert(windows, winit_window.id, winit_window)]

InsertEvents ==
    <<Event("insert", "entity_to_winit", "Ok"),
      Event("insert", "winit_to_entity", "Ok"),
      Event("insert", "windows", "Ok")>>

\* mutant: no single-window guard
single_window_guard_absent == FALSE

\* lines 60-69
single_window_guard == winrt /\ DOMAIN windows # {}

\* line 323: the platform's answer to event_loop.create_window, an error leaving by ?
\* mutant: the error of event_loop.create_window is not propagated
platform_create_unchecked(create_response) == Ok("window")

platform_create(create_response) ==
    IF create_response = "Ok" THEN Ok("window")
    ELSE Err(RequestError(create_response, "create_window"))

\* mutant: the new id is recorded in the maps right after the platform made the
\* window, before the cursor calls
create_outcome_registers_first(entity, winit_window, visible, cursor_options, platform) ==
    LET created_window == platform_create(platform.create)
        create_call == Event("create_window", "", platform.create)
        grab == creation_grab(cursor_options, platform.grab)
        registered == registry_insert(entity, winit_window)
    IN  IF single_window_guard
        THEN [maps |-> Maps, trace |-> <<>>, requested |-> FALSE,
              ret |-> Err(RequestError("NotSupported", "single_window"))]
        ELSE IF ~created_window.ok
        THEN [maps |-> Maps, trace |-> <<create_call>>, requested |-> TRUE,
              ret |-> Err(created_window.err)]
        ELSE IF ~grab.result.ok
        THEN [maps |-> Maps, requested |-> TRUE,
              trace |-> <<create_call, Event("set_visible", BoolStr(visible), "Ok")>>
                        \o grab.calls,
              ret |-> Err(grab.result.err)]
        ELSE [maps |-> registered, requested |-> TRUE,
              trace |-> <<create_call>>
                        \o InsertEvents
                        \o <<Event("set_visible", BoolStr(visible), "Ok")>>
                        \o grab.calls
                        \o cursor_visibility(cursor_options, platform.hittest),
              ret |-> Ok(registered.windows[winit_window.id])]

\* lines 60-69 and 323-363: the calls made, the maps and the value returned.
\* A dropped grab result is Ok, so the branch that returns its error is never
\* taken: it is where an attempt_grab(..)? would leave.
create_outcome(entity, winit_window, visible, cursor_options, platform) ==
    LET created_window == platform_create(platform.create)
        create_call == Event("create_window", "", platform.create)
        grab == creation_grab(cursor_options, platform.grab)
        registered == registry_insert(entity, winit_window)
    IN  IF single_window_guard
        THEN [maps |-> Maps, trace |-> <<>>, requested |-> FALSE,
              ret |-> Err(RequestError("NotSupported", "single_window"))]
        ELSE IF ~created_window.ok
        THEN [maps |-> Maps, trace |-> <<create_call>>, requested |-> TRUE,
              ret |-> Err(created_window.err)]
        ELSE IF ~grab.result.ok
        THEN [maps |-> Maps, requested |-> TRUE,
              trace |-> <<create_call, Event("set_visible", BoolStr(visible), "Ok")>>
                        \o grab.calls,
              ret |-> Err(grab.result.err)]
        ELSE [maps |-> registered, requested |-> TRUE,
              trace |-> <<create_call, Event("set_visible", BoolStr(visible), "Ok")>>
                        \o grab.calls
                        \o cursor_visibility(cursor_options, platform.hittest)
                        \o InsertEvents,
              ret |-> Ok(registered.windows[winit_window.id])]

-----------------------------------------------------------------------------
(* WinitWindows::get_window, get_window_entity, remove_window *)

\* lines 367-371, on the maps m
get_window_in(m, entity) ==
    IF entity \in DOMAIN m.entity_to_winit
    THEN LET winit_id == m.entity_to_winit[entity]
         IN  IF winit_id \in DOMAIN m.windows THEN Some(m.windows[winit_id]) ELSE None
    ELSE None

\* lines 376-378, on the maps m
get_window_entity_in(m, winit_id) ==
    IF winit_id \in DOMAIN m.winit_to_entity THEN Some(m.winit_to_entity[winit_id]) ELSE None

\* mutant: winit_to_entity keeps the entry of the removed id
registry_remove_keeps_reverse(entity) ==
    IF entity \notin DOMAIN entity_to_winit
    THEN [maps |-> Maps, ret |-> None]
    ELSE LET winit_id == entity_to_winit[entity]
         IN  [maps |-> [entity_to_winit |-> MapRemove(entity_to_winit, entity),
                        winit_to_entity |-> winit_to_entity,
                        windows |-> MapRemove(windows, winit_id)],
              ret |-> IF winit_id \in DOMAIN windows THEN Some(windows[winit_id]) ELSE None]

\* mutant: entity_to_winit.get(&entity) in place of remove, the entity stays registered
registry_remove_by_get(entity) ==
    IF entity \notin DOMAIN entity_to_winit
    THEN [maps |-> Maps, ret |-> None]
    ELSE LET winit_id == entity_to_winit[entity]
         IN  [maps |-> [entity_to_winit |-> entity_to_winit,
                        winit_to_entity |-> MapRemove(winit_to_entity, winit_id),
                        windows |-> MapRemove(windows, winit_id)],
              ret |-> IF winit_id \in DOMAIN windows THEN Some(windows[winit_id]) ELSE None]

\* mutant: the handle of the removed id stays in windows
registry_remove_keeps_handle(entity) ==
    IF entity \notin DOMAIN entity_to_winit
    THEN [maps |-> Maps, ret |-> None]
    ELSE LET winit_id == entity_to_winit[entity]
         IN  [maps |-> [entity_to_winit |-> MapRemove(entity_to_winit, entity),
                        winit_to_entity |-> MapRemove(winit_to_entity, winit_id),
                        windows |-> windows],
              ret |-> IF winit_id \in DOMAIN windows THEN Some(windows[winit_id]) ELSE None]

\* mutant: windows.clear() in place of windows.remove(&winit_id)
registry_remove_all_handles(entity) ==
    IF entity \notin DOMAIN entity_to_winit
    THEN [maps |-> Maps, ret |-> None]
    ELSE LET winit_id == entity_to_winit[entity]
         IN  [maps |-> [entity_to_winit |-> MapRemove(entity_to_winit, entity),
                        winit_to_entity |-> MapRemove(winit_to_entity, winit_id),
                        windows |-> EmptyMap],
              ret |-> IF winit_id \in DOMAIN windows THEN Some(windows[winit_id]) ELSE None]

\* mutant: every reverse entry of the entity is removed, whatever its id
registry_remove_all_reverse(entity) ==
    IF entity \notin DOMAIN entity_to_winit
    THEN [maps |-> Maps, ret |-> None]
    ELSE LET winit_id == entity_to_winit[entity]
             kept == {x \in DOMAIN winit_to_entity :
                         x # winit_id /\ winit_to_entity[x] # entity}
         IN  [maps |-> [entity_to_winit |-> MapRemove(entity_to_winit, entity),
                        winit_to_entity |-> [x \in kept |-> winit_to_entity[x]],
                        windows |-> MapRemove(windows, winit_id)],
              ret |-> IF winit_id \in DOMAIN windows THEN Some(windows[winit_id]) ELSE None]

\* lines 383-387: the maps and the value returned
registry_remove(entity) ==
    IF entity \notin DOMAIN entity_to_winit
    THEN [maps |-> Maps, ret |-> None]                            \* the ? at line 384
    ELSE LET winit_id == entity_to_winit[entity]
         IN  [maps |-> [entity_to_winit |-> MapRemove(entity_to_winit, entity),
                        winit_to_entity |-> MapRemove(winit_to_entity, winit_id),
                        windows |-> MapRemove(windows, winit_id)],
              ret |-> IF winit_id \in DOMAIN windows THEN Some(windows[winit_id]) ELSE None]

-----------------------------------------------------------------------------
(* Actions *)

\* lines 52-364.  platform.create and id are the platform's answer to
\* event_loop.create_window; platform.grab and platform.hittest its answers to
\* set_cursor_grab and set_cursor_hittest on the new window.
create_window(entity, window, cursor_options, monitors, primary_monitor, id, platform) ==
    LET winit_window == [id |-> id, serial |-> nextSerial]
        built == attributes_result(window, monitors, primary_monitor)
        reached == create_outcome(entity, winit_window, window.visible,
                                  cursor_options, platform)
    IN  \E outcome \in {IF reached.requested /\ ~built.ok
                         THEN \* where an error of lines 71-144 would leave
                              [maps |-> Maps, trace |-> <<>>, requested |-> FALSE,
                               ret |-> Err(built.err)]
                         ELSE reached} :
            /\ outcome.ret.ok => nextSerial <= MaxCreates
            /\ call' = [op |-> "create_window", entity |-> entity, window |-> window,
                        cursor_options |-> cursor_options, monitors |-> monitors,
                        primary_monitor |-> primary_monitor]
            /\ pre' = Maps
            /\ request' = IF outcome.requested THEN Some(built.val) ELSE None
            /\ trace' = outcome.trace
            /\ queries' = IF single_window_guard THEN <<>>
                          ELSE creation_queries(window, monitors, primary_monitor)
            /\ ret' = outcome.ret
            /\ windows' = outcome.maps.windows
            /\ entity_to_winit' = outcome.maps.entity_to_winit
            /\ winit_to_entity' = outcome.maps.winit_to_entity
            /\ nextSerial' = IF outcome.ret.ok THEN nextSerial + 1 ELSE nextSerial
            /\ created' = IF outcome.ret.ok THEN MapInsert(created, entity, winit_window)
                          ELSE created
            /\ overwritten' = (overwritten
                               \/ (outcome.ret.ok /\ entity \in DOMAIN entity_to_winit))
            /\ UNCHANGED winrt

get_window(entity) ==
    /\ call' = [op |-> "get_window", entity |-> entity]
    /\ pre' = Maps
    /\ ret' = get_window_in(Maps, entity)
    /\ request' = None
    /\ trace' = <<>>
    /\ queries' = <<>>
    /\ UNCHANGED <<winrt, windows, entity_to_winit, winit_to_entity, nextSerial,
                   created, overwritten>>

get_window_entity(winit_id) ==
    /\ call' = [op |-> "get_window_entity", winit_id |-> winit_id]
    /\ pre' = Maps
    /\ ret' = get_window_entity_in(Maps, winit_id)
    /\ request' = None
    /\ trace' = <<>>
    /\ queries' = <<>>
    /\ UNCHANGED <<winrt, windows, entity_to_winit, winit_to_entity, nextSerial,
                   created, overwritten>>

remove_window(entity) ==
    \E outcome \in {registry_remove(entity)} :
        /\ call' = [op |-> "remove_window", entity |-> entity]
        /\ pre' = Maps
        /\ request' = None
        /\ trace' = <<>>
        /\ queries' = <<>>
        /\ ret' = outcome.ret
        /\ windows' = outcome.maps.windows
        /\ entity_to_winit' = outcome.maps.entity_to_winit
        /\ winit_to_entity' = outcome.maps.winit_to_entity
        /\ created' = MapRemove(created, entity)
        /\ UNCHANGED <<winrt, nextSerial, overwritten>>

\* attempt_grab called on a stored window after its creation (a change of the
\* cursor options at run time)
runtime_grab(winit_id, grab_mode, platform) ==
    LET g == attempt_grab(grab_mode, platform)
    IN  /\ winit_id \in DOMAIN windows
        /\ call' = [op |-> "attempt_grab", winit_id |-> winit_id, grab_mode |-> grab_mode]
        /\ pre' = Maps
        /\ ret' = g.result
        /\ request' = None
        /\ trace' = g.calls
        /\ queries' = <<>>
        /\ UNCHANGED <<winrt, windows, entity_to_winit, winit_to_entity, nextSerial,
                       created, overwritten>>

-----------------------------------------------------------------------------
(* The environment: monitors, window configurations, platform answers *)

\* two monitors as winit reports them: A has a current video mode and two
\* modes that differ in bit depth only; B reports no current video mode, a
\* mode without refresh rate and bit depth, and sits left of A
MonitorA ==
    [name |-> "A", position |-> Some(<<0, 0>>), scale_factor |-> ScaleUnit,
     current_video_mode |-> Some(VideoMode(1920, 1080, Some(60000), Some(24))),
     video_modes |-> <<VideoMode(1920, 1080, Some(60000), Some(24)),
                       VideoMode(1920, 1080, Some(60000), Some(32))>>]
MonitorB ==
    [name |-> "B", position |-> Some(<<-1280, 0>>),
     scale_factor |-> ScaleUnit + ScaleUnit \div 2,
     current_video_mode |-> None,
     video_modes |-> <<VideoMode(1280, 720, None, None),
                       VideoMode(1280, 720, Some(60000), Some(32))>>]

\* entities that own the monitors (not window entities), and one that owns none
MonitorEntityA == MaxEntities + 1
MonitorEntityB == MaxEntities + 2
NoMonitorEntity == MaxEntities + 3

Directory == <<[monitor |-> MonitorA, entity |-> MonitorEntityA],
               [monitor |-> MonitorB, entity |-> MonitorEntityB]>>

Resolution(w, h, override) == [width |-> w, height |-> h, scale_factor_override |-> override]

WindowConfig(mode, position, resolution) ==
    [mode |-> mode, position |-> position, resolution |-> resolution, visible |-> TRUE]

\* the platform's answers to set_cursor_grab that a call with grab_mode can see
GrabPlatforms(grab_mode) ==
    IF grab_mode = "None"
    THEN {[m \in GrabModes |-> IF m = "None" THEN r ELSE "Ok"] : r \in Responses}
    ELSE {[m \in GrabModes |-> IF m = "Confined" THEN r[1]
                               ELSE IF m = "Locked" THEN r[2] ELSE "Ok"] :
              r \in Responses \X Responses}
AllOk == [m \in GrabModes |-> "Ok"]

\* the platform's answers to the requests of one create_window call
Platform(create, grab, hittest) == [create |-> create, grab |-> grab, hittest |-> hittest]

\* the platform's answers to set_cursor_hittest that a call can see
HittestResponses(cursor_options) == IF cursor_options.hit_test THEN {"Ok"} ELSE Responses

\* event_loop.create_window failed: there is no window, so no id and no later answer
NoId == MaxWindowIds + 1

\* inputs of the registry specification
RegistryWindows ==
    {WindowConfig(Windowed, Automatic, Resolution(800, 600, None))}
RegistryCursorOptions ==
    {[grab_mode |-> "None", visible |-> TRUE, hit_test |-> TRUE],
     [grab_mode |-> "Confined", visible |-> FALSE, hit_test |-> TRUE],
     [grab_mode |-> "Locked", visible |-> TRUE, hit_test |-> TRUE]}

-----------------------------------------------------------------------------
(* Specification: any sequence of calls on a registry made by new() *)

\* lines 42-49; the build is fixed once and for all
Init ==
    /\ winrt \in BOOLEAN
    /\ windows = EmptyMap
    /\ entity_to_winit = EmptyMap
    /\ winit_to_entity = EmptyMap
    /\ nextSerial = 1
    /\ call = [op |-> "new"]
    /\ ret = None
    /\ request = None
    /\ trace = <<>>
    /\ queries = <<>>
    /\ pre = [windows |-> EmptyMap, entity_to_winit |-> EmptyMap,
              winit_to_entity |-> EmptyMap]
    /\ created = EmptyMap
    /\ overwritten = FALSE

\* the platform gives a new window an id no live window has; the windows held
\* in the registry are alive
FreshIds == WindowIds \ DOMAIN windows

\* event_loop.create_window succeeds
CreateWindow ==
    \E entity \in Entities, id \in FreshIds, window \in RegistryWindows,
       cursor_options \in RegistryCursorOptions :
        \E grab_platform \in GrabPlatforms(cursor_options.grab_mode),
           hittest_response \in HittestResponses(cursor_options) :
            create_window(entity, window, cursor_options, Directory, Some(MonitorA), id,
                          Platform("Ok", grab_platform, hittest_response))

\* event_loop.create_window fails
CreateWindowFails ==
    \E entity \in Entities, window \in RegistryWindows,
       cursor_options \in RegistryCursorOptions, kind \in ErrorKinds :
        create_window(entity, window, cursor_options, Directory, Some(MonitorA), NoId,
                      Platform(kind, AllOk, "Ok"))

GetWindow == \E entity \in Entities : get_window(entity)

GetWindowEntity == \E winit_id \in WindowIds : get_window_entity(winit_id)

RemoveWindow == \E entity \in Entities : remove_window(entity)

RuntimeGrab ==
    \E winit_id \in DOMAIN windows, grab_mode \in GrabModes :
        \E platform \in GrabPlatforms(grab_mode) :
            runtime_grab(winit_id, grab_mode, platform)

Next ==
    \/ CreateWindow
    \/ CreateWindowFails
    \/ GetWindow
    \/ GetWindowEntity
    \/ RemoveWindow

Spec == Init /\ [][Next]_vars

-----------------------------------------------------------------------------
(* Specification: any sequence of calls on a registry made by new(), the
   platform free to give a new window any id, the id of a stored window
   included *)

CreateWindowAnyId ==
    \E entity \in Entities, id \in WindowIds, window \in RegistryWindows :
        create_window(entity, window,
                      [grab_mode |-> "None", visible |-> TRUE, hit_test |-> TRUE],
                      Directory, Some(MonitorA), id, Platform("Ok", AllOk, "Ok"))

NextAnyId ==
    \/ CreateWindowAnyId
    \/ CreateWindowFails
    \/ GetWindow
    \/ GetWindowEntity
    \/ RemoveWindow

SpecAnyId == Init /\ [][NextAnyId]_vars

-----------------------------------------------------------------------------
(* Specification: a window is created, then its cursor grab is changed at run
   time any number of times *)

NewRegistry == call.op = "new"

CreateFirst == NewRegistry /\ CreateWindow

NextGrab ==
    \/ CreateFirst
    \/ RuntimeGrab

SpecGrab == Init /\ [][NextGrab]_vars

-----------------------------------------------------------------------------
(* Specification: one create_window call on a new registry, over every window
   mode, placement, monitor directory, cursor policy and platform answer *)

MaxIndex == 2

MonitorSelections ==
    {SelCurrent, SelPrimary}
    \cup {SelIndex(n) : n \in 0..MaxIndex}
    \cup {SelEntity(e) : e \in {MonitorEntityA, MonitorEntityB, NoMonitorEntity}}

VideoModeSelections ==
    {VmsCurrent,
     VmsSpecific(1920, 1080, 60000, 32),
     VmsSpecific(1920, 1080, 144000, 24),
     VmsSpecific(1280, 720, 0, 0)}

WindowModes ==
    {Windowed}
    \cup {BorderlessFullscreen(sel) : sel \in MonitorSelections}
    \cup {Fullscreen(sel, vms) : sel \in MonitorSelections, vms \in VideoModeSelections}

WindowPositions ==
    {Automatic, At(-10, 20)} \cup {Centered(sel) : sel \in MonitorSelections}

\* a window smaller than either monitor, and one wider than both with an override
WindowResolutions ==
    {Resolution(800, 600, None), Resolution(1000, 300, Some(2 * ScaleUnit))}

\* the placement and the resolution are read in Windowed mode only
CreateWindows ==
    {WindowConfig(Windowed, position, resolution) :
        position \in WindowPositions, resolution \in WindowResolutions}
    \cup {WindowConfig(mode, Automatic, Resolution(800, 600, None)) :
            mode \in WindowModes \ {Windowed}}

Directories == {<<>>, Directory}
PrimaryMonitors == {None, Some(MonitorA)}

CursorOptions == [grab_mode : GrabModes, visible : BOOLEAN, hit_test : BOOLEAN]

\* every window configuration and monitor directory, with the cursor policies
\* of the registry specification
CreateNew ==
    /\ NewRegistry
    /\ \E entity \in Entities, id \in WindowIds, window \in CreateWindows,
          monitors \in Directories, primary_monitor \in PrimaryMonitors,
          cursor_options \in RegistryCursorOptions :
           \E grab_platform \in GrabPlatforms(cursor_options.grab_mode),
              hittest_response \in HittestResponses(cursor_options) :
               create_window(entity, window, cursor_options, monitors, primary_monitor, id,
                             Platform("Ok", grab_platform, hittest_response))

\* every cursor policy and platform answer, with the window configurations of
\* the registry specification
CreateNewCursor ==
    /\ NewRegistry
    /\ \E entity \in Entities, id \in WindowIds, window \in RegistryWindows,
          cursor_options \in CursorOptions :
           \E grab_platform \in GrabPlatforms(cursor_options.grab_mode),
              hittest_response \in HittestResponses(cursor_options) :
               create_window(entity, window, cursor_options, Directory, Some(MonitorA), id,
                             Platform("Ok", grab_platform, hittest_response))

\* event_loop.create_window fails
CreateNewFails ==
    /\ NewRegistry
    /\ \E entity \in Entities, window \in CreateWindows,
          monitors \in Directories, primary_monitor \in PrimaryMonitors,
          cursor_options \in RegistryCursorOptions, kind \in ErrorKinds :
           create_window(entity, window, cursor_options, monitors, primary_monitor, NoId,
                         Platform(kind, AllOk, "Ok"))

NextCreate ==
    \/ CreateNew
    \/ CreateNewCursor
    \/ CreateNewFails

SpecCreate == Init /\ [][NextCreate]_vars

-----------------------------------------------------------------------------
(* Specification: select_monitor and get_selected_videomode called on any
   directory, monitor and selection *)

\* two more monitors: C has odd dimensions, no position and a mode without bit
\* depth; D has odd dimensions, a negative origin and enumerates no mode
MonitorC ==
    [name |-> "C", position |-> None, scale_factor |-> ScaleUnit + ScaleUnit \div 4,
     current_video_mode |-> Some(VideoMode(1921, 1081, Some(60000), None)),
     video_modes |-> <<VideoMode(1921, 1081, Some(60000), None),
                       VideoMode(1920, 1080, Some(144000), Some(24)),
                       VideoMode(1920, 1080, Some(60000), Some(32)),
                       VideoMode(1921, 1081, Some(60000), None)>>]
MonitorD ==
    [name |-> "D", position |-> Some(<<-1281, -7>>),
     scale_factor |-> ScaleUnit + ScaleUnit \div 2,
     current_video_mode |-> Some(VideoMode(1281, 1081, None, Some(32))),
     video_modes |-> <<>>]

MonitorEntityC == MaxEntities + 4
MonitorEntityD == MaxEntities + 5

\* a directory of three monitors that lists monitor A last
DirectoryCDA == <<[monitor |-> MonitorC, entity |-> MonitorEntityC],
                  [monitor |-> MonitorD, entity |-> MonitorEntityD],
                  [monitor |-> MonitorA, entity |-> MonitorEntityA]>>

Monitors == {MonitorA, MonitorB, MonitorC, MonitorD}
MaybeMonitors == {None} \cup {Some(m) : m \in Monitors}
SelectDirectories == {<<>>, Directory, DirectoryCDA}

\* Specific selections that differ from a mode of some monitor in no field, in
\* one field, or by the 0 that stands for an absent field
MatcherSelections ==
    VideoModeSelections
    \cup {VmsSpecific(1920, 1080, 60000, 24), VmsSpecific(1920, 1080, 60000, 0),
          VmsSpecific(1921, 1081, 60000, 0), VmsSpecific(1921, 1080, 60000, 0),
          VmsSpecific(1280, 720, 60000, 32), VmsSpecific(1280, 720, 0, 32),
          VmsSpecific(1920, 1080, 144000, 32)}

\* lines 522-541, called with any current monitor
SelectMonitor ==
    \E monitors \in SelectDirectories, primary_monitor \in MaybeMonitors,
       current_monitor \in MaybeMonitors, monitor_selection \in MonitorSelections :
        /\ call' = [op |-> "select_monitor", monitors |-> monitors,
                    primary_monitor |-> primary_monitor,
                    current_monitor |-> current_monitor,
                    monitor_selection |-> monitor_selection]
        /\ ret' = select_monitor(monitors, primary_monitor, current_monitor,
                                 monitor_selection)
        /\ pre' = Maps
        /\ request' = None
        /\ trace' = <<>>
        /\ queries' = <<>>
        /\ UNCHANGED <<winrt, windows, entity_to_winit, winit_to_entity, nextSerial,
                       created, overwritten>>

\* lines 392-409
GetSelectedVideomode ==
    \E monitor \in Monitors, selection \in MatcherSelections :
        /\ call' = [op |-> "get_selected_videomode", monitor |-> monitor,
                    selection |-> selection]
        /\ ret' = get_selected_videomode(monitor, selection)
        /\ pre' = Maps
        /\ request' = None
        /\ trace' = <<>>
        /\ queries' = <<>>
        /\ UNCHANGED <<winrt, windows, entity_to_winit, winit_to_entity, nextSerial,
                       created, overwritten>>

NextMonitor ==
    \/ SelectMonitor
    \/ GetSelectedVideomode

SpecMonitor == Init /\ [][NextMonitor]_vars

-----------------------------------------------------------------------------
(* Specification: one call on a new registry, of winit_window_position on any
   placement, resolution and monitors, or of create_window in Windowed mode *)

\* windows smaller than, as large as and larger than the monitors, with and
\* without an override; an override of 0.5 makes the physical size the smaller
PositionResolutions ==
    {Resolution(800, 600, None),
     Resolution(801, 601, None),
     Resolution(1000, 300, Some(2 * ScaleUnit)),
     Resolution(1920, 1080, Some(ScaleUnit)),
     Resolution(3000, 2000, None),
     Resolution(3000, 2000, Some(ScaleUnit \div 2))}

PositionPrimaries == {None, Some(MonitorA), Some(MonitorC), Some(MonitorD)}
PositionCurrents == {None, Some(MonitorB), Some(MonitorD)}

\* lines 461-519, called with any current monitor
WinitWindowPosition ==
    \E position \in WindowPositions, resolution \in PositionResolutions,
       monitors \in SelectDirectories, primary_monitor \in PositionPrimaries,
       current_monitor \in PositionCurrents :
        /\ NewRegistry
        /\ call' = [op |-> "winit_window_position", position |-> position,
                    resolution |-> resolution, monitors |-> monitors,
                    primary_monitor |-> primary_monitor,
                    current_monitor |-> current_monitor]
        /\ ret' = winit_window_position(position, resolution, monitors,
                                        primary_monitor, current_monitor)
        /\ queries' = position_queries(position, monitors, primary_monitor,
                                       current_monitor)
        /\ pre' = Maps
        /\ request' = None
        /\ trace' = <<>>
        /\ UNCHANGED <<winrt, windows, entity_to_winit, winit_to_entity, nextSerial,
                       created, overwritten>>

\* create_window in Windowed mode: the placement and the resolution are read
CreateWindowed ==
    /\ NewRegistry
    /\ \E entity \in Entities, id \in WindowIds, position \in WindowPositions,
          resolution \in PositionResolutions, monitors \in SelectDirectories,
          primary_monitor \in PositionPrimaries :
           create_window(entity, WindowConfig(Windowed, position, resolution),
                         [grab_mode |-> "None", visible |-> TRUE, hit_test |-> TRUE],
                         monitors, primary_monitor, id, Platform("Ok", AllOk, "Ok"))

NextPosition ==
    \/ WinitWindowPosition
    \/ CreateWindowed

SpecPosition == Init /\ [][NextPosition]_vars

-----------------------------------------------------------------------------
(* Properties of the registry *)

Range(f) == {f[x] : x \in DOMAIN f}

\* entity_to_winit and winit_to_entity are inverses of one another and the keys
\* of windows are the values of entity_to_winit
Consistent(m) ==
    /\ \A e \in DOMAIN m.entity_to_winit :
          /\ m.entity_to_winit[e] \in DOMAIN m.winit_to_entity
          /\ m.winit_to_entity[m.entity_to_winit[e]] = e
    /\ \A i \in DOMAIN m.winit_to_entity :
          /\ m.winit_to_entity[i] \in DOMAIN m.entity_to_winit
          /\ m.entity_to_winit[m.winit_to_entity[i]] = i
    /\ DOMAIN m.windows = Range(m.entity_to_winit)

\* the last call was create_window and the platform refused to create the window
PlatformCreateFailed ==
    /\ call.op = "create_window"
    /\ trace # <<>>
    /\ trace[1].call = "create_window"
    /\ trace[1].res # "Ok"

\* the last call was create_window and the platform created the window
PlatformCreated ==
    /\ call.op = "create_window"
    /\ trace # <<>>
    /\ trace[1].call = "create_window"
    /\ trace[1].res = "Ok"

\* C1 as stated: in every reachable state, duplicate create_window included, the
\* three maps are mutually consistent.
C1_Original == Consistent(Maps)

\* C1 amended: as long as no create_window has succeeded for an entity that was
\* already registered (and the platform gives every new window an id that no
\* stored window has), the three maps are mutually consistent in every reachable
\* state; remove followed by re-create is covered.
C1_Consistent == ~overwritten => Consistent(Maps)

\* two windows were created without overwriting, one was removed in between
C1_Witness ==
    /\ ~overwritten
    /\ call.op = "create_window" /\ ret.ok
    /\ nextSerial = 3
    /\ Cardinality(DOMAIN windows) = 1

\* C2: when the platform creation call fails, create_window returns that error
\* and the three maps are as they were before the call.
C2_AtomicOnFailure ==
    PlatformCreateFailed =>
        /\ ret = Err(RequestError(trace[1].res, "create_window"))
        /\ Maps = pre

\* the platform refused a window while the registry held one
C2_Witness == PlatformCreateFailed /\ DOMAIN pre.windows # {}

\* C3: remove_window on an entity that is not registered returns None and leaves
\* the maps unchanged; after any remove_window(entity) a second remove_window of
\* the same entity returns None and changes nothing.
C3_RemoveIdempotent ==
    call.op = "remove_window" =>
        /\ call.entity \notin DOMAIN pre.entity_to_winit => (ret = None /\ Maps = pre)
        /\ call.entity \notin DOMAIN entity_to_winit
        /\ registry_remove(call.entity) = [maps |-> Maps, ret |-> None]

\* an unregistered entity was removed from a registry that holds a window
C3_Witness ==
    /\ call.op = "remove_window"
    /\ call.entity \notin DOMAIN pre.entity_to_winit
    /\ DOMAIN windows # {}

\* the last call was remove_window on a registered entity
RemovedRegistered ==
    /\ call.op = "remove_window"
    /\ call.entity \in DOMAIN pre.entity_to_winit

\* remove_window returned the stored handle and the entity's entry left the maps
RemovedEntry ==
    LET winit_id == pre.entity_to_winit[call.entity]
    IN  /\ ret = get_window_in(pre, call.entity)
        /\ ret.some
        /\ call.entity \notin DOMAIN entity_to_winit
        /\ winit_id \notin DOMAIN winit_to_entity
        /\ winit_id \notin DOMAIN windows
        /\ get_window_in(Maps, call.entity) = None

\* C4 as stated: after remove_window on a registered entity, no platform id that
\* had been recorded for the entity resolves any more (an id resolves to the
\* entity only if it had been recorded for it).
C4_Original ==
    RemovedRegistered =>
        /\ RemovedEntry
        /\ \A i \in WindowIds : get_window_entity_in(Maps, i) # Some(call.entity)

\* C4 amended: remove_window on a registered entity returns the handle stored for
\* it and removes the entity's entry from the three maps: afterwards
\* get_window(entity) is None and get_window_entity(id) is None for the id that
\* was recorded for the entity when remove_window was called (an id recorded
\* earlier and overwritten by a duplicate create_window stays).
C4_RemoveRegistered ==
    RemovedRegistered =>
        /\ RemovedEntry
        /\ get_window_entity_in(Maps, pre.entity_to_winit[call.entity]) = None

\* a registered entity was removed while another window stays
C4_Witness == RemovedRegistered /\ ret.some /\ DOMAIN windows # {}

-----------------------------------------------------------------------------
(* Properties of attempt_grab *)

\* the last call was attempt_grab on a stored window
GrabCalled == call.op = "attempt_grab"

\* attempt_grab(Confined or Locked) made two requests and the platform rejected both
DoubleFailure ==
    /\ GrabCalled
    /\ call.grab_mode # "None"
    /\ Len(trace) = 2
    /\ trace[1].res # "Ok"
    /\ trace[2].res # "Ok"

\* the error the platform gave to the i-th request of the last call
ErrorOf(i) == RequestError(trace[i].res, trace[i].arg)

\* C6 as stated: when both attempts are rejected, attempt_grab returns the error
\* of the first attempt.
C6_Original == DoubleFailure => ret = Err(ErrorOf(1))

\* C6 amended: when both attempts are rejected, the error decided on is the error
\* of the fallback (second) attempt, the error of the first attempt being dropped;
\* attempt_grab returns it, except on the WinRT build when it is NotSupported,
\* which is returned as Ok.
C6_FallbackError ==
    DoubleFailure =>
        ret = IF winrt /\ trace[2].res = "NotSupported" THEN Ok("unit") ELSE Err(ErrorOf(2))

\* both attempts were rejected, with different errors, on a build other than WinRT
C6_Witness == DoubleFailure /\ ~winrt /\ trace[1].res # trace[2].res

\* the mode attempt_grab falls back to
Fallback(grab_mode) == IF grab_mode = "Confined" THEN "Locked" ELSE "Confined"

GrabRequests == {i \in 1..Len(trace) : trace[i].call = "set_cursor_grab"}

\* C8: with the cursor policy Confined or Locked and every grab request failing,
\* create_window returns Ok and the maps are the maps before the call with the
\* new window inserted, as with a successful grab; an Err of create_window never
\* comes from a grab request.
C8_GrabFailureNotFatal ==
    /\ PlatformCreated =>
          /\ ret.ok
          /\ ret.val = windows[ret.val.id]
          /\ entity_to_winit = MapInsert(pre.entity_to_winit, call.entity, ret.val.id)
          /\ winit_to_entity = MapInsert(pre.winit_to_entity, ret.val.id, call.entity)
          /\ windows = MapInsert(pre.windows, ret.val.id, ret.val)
    /\ (call.op = "create_window" /\ ~ret.ok) =>
          ret.err.req \in {"create_window", "single_window"}

\* a window was created and registered although both grab requests failed
C8_Witness ==
    /\ PlatformCreated
    /\ call.cursor_options.grab_mode # "None"
    /\ Cardinality(GrabRequests) = 2
    /\ \A i \in GrabRequests : trace[i].res # "Ok"
    /\ ret.ok
    /\ DOMAIN pre.windows # {}

\* attempt_grab was called and the platform answered NotSupported to every request
AllUnsupported ==
    /\ GrabCalled
    /\ \A i \in 1..Len(trace) : trace[i].res = "NotSupported"

\* C9 as stated: attempt_grab called directly returns an error when the platform
\* reports every attempt as unsupported.
C9_Original == AllUnsupported => ~ret.ok

\* C9 amended: when the platform reports every attempt as unsupported,
\* attempt_grab called directly returns the NotSupported error on every build
\* but WinRT/UWP, where attempt_grab itself returns Ok; create_window succeeds
\* whatever the grab requests answer.
C9_UnsupportedGrab ==
    /\ AllUnsupported =>
          IF winrt THEN ret = Ok("unit")
          ELSE ~ret.ok /\ ret.err.kind = "NotSupported"
    /\ PlatformCreated => ret.ok

\* both requests of a direct call were unsupported on a build other than WinRT
C9_Witness == AllUnsupported /\ ~winrt /\ Len(trace) = 2 /\ ~ret.ok

-----------------------------------------------------------------------------
(* Properties of the creation request *)

\* the last call was create_window in mode Fullscreen and sent a creation request
FullscreenRequested ==
    /\ call.op = "create_window"
    /\ request.some
    /\ call.window.mode.kind = "Fullscreen"

\* the monitor the last create_window call resolved its selection to (line 101)
ResolvedMonitor ==
    maybe_selected_monitor(call.window, call.monitors, call.primary_monitor)

\* the video mode the matcher returns for the resolved monitor (lines 102-103)
MatchedMode ==
    get_selected_videomode(ResolvedMonitor.val, call.window.mode.video_mode_selection)

\* C10: in mode Fullscreen, when the selection resolves to a monitor and the
\* matcher returns a mode for it, the creation request asks for exclusive
\* fullscreen with that monitor and that mode.
C10_ExclusiveFullscreen ==
    (FullscreenRequested /\ ResolvedMonitor.some /\ MatchedMode.some) =>
        request.val.fullscreen =
            Some([kind |-> "Exclusive", monitor |-> ResolvedMonitor,
                  video_mode |-> MatchedMode])

\* a Specific selection matched the mode of bit depth 32, which is not the
\* monitor's current mode, and the request is exclusive fullscreen with it
C10_Witness ==
    /\ FullscreenRequested
    /\ call.window.mode.video_mode_selection.kind = "Specific"
    /\ ResolvedMonitor = Some(MonitorA)
    /\ MatchedMode = Some(VideoMode(1920, 1080, Some(60000), Some(32)))
    /\ request.val.fullscreen.some
    /\ request.val.fullscreen.val.kind = "Exclusive"
    /\ ret.ok

\* the request of the last call was sent to the platform
RequestSent == trace # <<>> /\ trace[1].call = "create_window"

\* in mode Fullscreen the monitor resolved and the matcher returned no mode
NoModeMatched == FullscreenRequested /\ ResolvedMonitor.some /\ ~MatchedMode.some

\* C11: in mode Fullscreen, when the monitor resolves and no video mode matches,
\* the creation request carries no fullscreen setting, its attributes are the
\* attributes as they were before the mode decision, and the request is sent:
\* the window is created and registered when the platform accepts it.
C11_NoModeWindowed ==
    NoModeMatched =>
        /\ request.val.fullscreen = None
        /\ request.val = [fullscreen |-> None, position |-> None, surface_size |-> None]
        /\ RequestSent
        /\ PlatformCreated => (ret.ok /\ get_window_in(Maps, call.entity) = Some(ret.val))

\* a Specific selection matched no mode of monitor A and the window was created
C11_Witness ==
    /\ NoModeMatched
    /\ call.window.mode.video_mode_selection.kind = "Specific"
    /\ ResolvedMonitor = Some(MonitorA)
    /\ request.val.fullscreen = None
    /\ ret.ok

\* in mode Fullscreen the selection resolved to no monitor
MonitorUnresolved == FullscreenRequested /\ ~ResolvedMonitor.some

\* C12: in mode Fullscreen, when the selection resolves to no monitor, the
\* creation request asks for borderless fullscreen with no monitor and
\* get_selected_videomode is not called.
C12_NoMonitorBorderless ==
    MonitorUnresolved =>
        /\ request.val.fullscreen =
              Some([kind |-> "Borderless", monitor |-> None, video_mode |-> None])
        /\ \A i \in 1..Len(queries) : queries[i].call # "get_selected_videomode"

\* an index out of range with a Specific video mode, on a build that resolves
\* the selection: select_monitor answered None and nothing else was asked
C12_Witness ==
    /\ MonitorUnresolved
    /\ call.window.mode.monitor_selection.kind = "Index"
    /\ call.window.mode.video_mode_selection.kind = "Specific"
    /\ queries = <<Event("select_monitor", "Index", "None")>>
    /\ ret.ok

\* the last call was create_window in mode BorderlessFullscreen and sent a request
BorderlessRequested ==
    /\ call.op = "create_window"
    /\ request.some
    /\ call.window.mode.kind = "BorderlessFullscreen"

\* the selection of the last create_window call resolved with the event loop's
\* primary monitor and no current monitor
SelectedAtCreation ==
    select_monitor(call.monitors, call.primary_monitor, None,
                   call.window.mode.monitor_selection)

\* C13 as stated: in mode BorderlessFullscreen the request is borderless
\* fullscreen on the monitor the selection resolves to with the primary monitor
\* and no current monitor, on no monitor when it resolves to none.
C13_Original ==
    BorderlessRequested =>
        request.val.fullscreen =
            Some([kind |-> "Borderless", monitor |-> SelectedAtCreation,
                  video_mode |-> None])

\* C13 amended: on every build but WinRT/UWP the request is borderless
\* fullscreen on the monitor the selection resolves to with the primary monitor
\* and no current monitor, on no monitor when it resolves to none; on WinRT/UWP
\* the selection is not resolved and the request is borderless fullscreen on no
\* monitor; the selection Current yields no monitor on every build.
C13_Borderless ==
    BorderlessRequested =>
        /\ request.val.fullscreen =
              Some([kind |-> "Borderless",
                    monitor |-> IF winrt THEN None ELSE SelectedAtCreation,
                    video_mode |-> None])
        /\ call.window.mode.monitor_selection.kind = "Current" =>
              request.val.fullscreen.val.monitor = None

\* the selection Current with a primary monitor at hand, on a build that
\* resolves the selection: borderless fullscreen on no monitor
C13_Witness ==
    /\ BorderlessRequested
    /\ ~winrt
    /\ call.window.mode.monitor_selection.kind = "Current"
    /\ call.primary_monitor.some
    /\ request.val.fullscreen.val.monitor = None
    /\ ret.ok

-----------------------------------------------------------------------------
(* Properties of get_selected_videomode and select_monitor *)

\* the last call was get_selected_videomode with a Specific selection
MatcherCalled ==
    /\ call.op = "get_selected_videomode"
    /\ call.selection.kind = "Specific"

\* an absent refresh rate or bit depth counts as 0
Sentinel(opt) == IF opt.some THEN opt.val ELSE 0

\* the positions, in enumeration order, of the modes of the monitor of the last
\* call that equal the requested values on all four fields
MatchingModes ==
    {i \in 1..Len(call.monitor.video_modes) :
        LET mode == call.monitor.video_modes[i]
        IN  /\ mode.width = call.selection.width
            /\ mode.height = call.selection.height
            /\ Sentinel(mode.refresh_rate_millihertz) = call.selection.refresh_rate_millihertz
            /\ Sentinel(mode.bit_depth) = call.selection.bit_depth}

\* the two modes of the example: 1920x1080 at 60 Hz with bit depth 24, then 32
ExampleModes ==
    <<[width |-> 1920, height |-> 1080, refresh_rate_millihertz |-> Some(60000),
       bit_depth |-> Some(24)],
      [width |-> 1920, height |-> 1080, refresh_rate_millihertz |-> Some(60000),
       bit_depth |-> Some(32)]>>

\* C14: get_selected_videomode with a Specific selection returns the first mode
\* in enumeration order that equals the requested width, height, refresh rate
\* and bit depth (an absent refresh rate or bit depth counting as 0), and None
\* exactly when no mode does; on the example modes, bit depth 32 gives the
\* second mode and refresh rate 144000 gives None.
C14_FirstExactMatch ==
    MatcherCalled =>
        /\ (ret = None) <=> (MatchingModes = {})
        /\ MatchingModes # {} =>
              \E i \in MatchingModes :
                  /\ \A j \in MatchingModes : i <= j
                  /\ ret = Some(call.monitor.video_modes[i])
        /\ call.monitor.video_modes = ExampleModes =>
              /\ call.selection = VmsSpecific(1920, 1080, 60000, 32) =>
                    ret = Some(ExampleModes[2])
              /\ call.selection.refresh_rate_millihertz = 144000 => ret = None

\* the example: bit depth 32 requested of monitor A, the second mode returned
C14_Witness ==
    /\ MatcherCalled
    /\ call.monitor.video_modes = ExampleModes
    /\ call.selection = VmsSpecific(1920, 1080, 60000, 32)
    /\ ret = Some(ExampleModes[2])

\* the last call was select_monitor
SelectCalled == call.op = "select_monitor"

\* the positions of the monitors of the directory of the last call that the
\* selected entity owns
OwnedMonitors ==
    {i \in 1..Len(call.monitors) :
        call.monitors[i].entity = call.monitor_selection.entity}

\* C15: select_monitor returns the current monitor passed in for Current, the
\* primary monitor passed in for Primary (None when None was passed), the n-th
\* monitor of the directory for Index(n) and None when n is out of range, the
\* monitor the entity owns for Entity(e) and None when it owns none.
C15_SelectMonitor ==
    SelectCalled =>
        LET selection == call.monitor_selection
            n == selection.n
        IN  /\ selection.kind = "Current" => ret = call.current_monitor
            /\ selection.kind = "Primary" => ret = call.primary_monitor
            /\ selection.kind = "Index" =>
                  ret = IF n < Len(call.monitors)
                        THEN [some |-> TRUE, val |-> call.monitors[n + 1].monitor]
                        ELSE None
            /\ selection.kind = "Entity" =>
                  IF OwnedMonitors = {} THEN ret = None
                  ELSE ret.some /\ \E i \in OwnedMonitors : ret.val = call.monitors[i].monitor

\* Primary with no primary monitor, in a directory that holds monitors and
\* with a current monitor at hand: None
C15_Witness ==
    /\ SelectCalled
    /\ call.monitor_selection.kind = "Primary"
    /\ ~call.primary_monitor.some
    /\ call.monitors # <<>>
    /\ call.current_monitor.some
    /\ ret = None

-----------------------------------------------------------------------------
(* Properties of winit_window_position *)

\* the last call was winit_window_position
PositionCalled == call.op = "winit_window_position"

\* the monitor the Centered selection of the last call resolves to
CenterMonitor ==
    select_monitor(call.monitors, call.primary_monitor, call.current_monitor,
                   call.position.monitor_selection)

\* winit_window_position was called with Centered, the selection resolved to a
\* monitor and the monitor reports a current video mode
CenteredCase ==
    /\ PositionCalled
    /\ call.position.kind = "Centered"
    /\ CenterMonitor.some
    /\ CenterMonitor.val.current_video_mode.some

\* the monitor's origin ((0, 0) when it reports none) and its physical size
MonitorOrigin ==
    IF CenterMonitor.val.position.some THEN CenterMonitor.val.position.val ELSE <<0, 0>>
MonitorSize ==
    <<CenterMonitor.val.current_video_mode.val.width,
      CenterMonitor.val.current_video_mode.val.height>>

\* the scale factor in hundredths: the override, or the monitor's
ScaleFactor ==
    IF call.resolution.scale_factor_override.some
    THEN call.resolution.scale_factor_override.val
    ELSE CenterMonitor.val.scale_factor

\* the integer nearest to logical * ScaleFactor (a half going up)
PhysicalSize(logical) ==
    LET exact == logical * ScaleFactor
        floor == exact \div ScaleUnit
    IN  CHOOSE w \in {floor, floor + 1} :
            /\ 2 * ScaleUnit * w - 2 * exact > -ScaleUnit
            /\ 2 * ScaleUnit * w - 2 * exact <= ScaleUnit

LogicalSize == <<call.resolution.width, call.resolution.height>>
WindowSize == <<PhysicalSize(call.resolution.width), PhysicalSize(call.resolution.height)>>

\* the window is not larger than the monitor on either axis
WindowFits == \A k \in 1..2 : WindowSize[k] <= MonitorSize[k]

\* x is twice_sum / 2 rounded to the nearest integer, a half going away from zero
NearestHalf(x, twice_sum) ==
    IF twice_sum % 2 = 0 THEN 2 * x = twice_sum
    ELSE IF twice_sum > 0 THEN 2 * x = twice_sum + 1
    ELSE 2 * x = twice_sum - 1

\* C16 as stated: for a window that fits the monitor, the position is on each
\* axis monitor_origin + (monitor_physical_size - window_physical_size) / 2,
\* the division taken exactly or as the integer division.
C16_Original ==
    (CenteredCase /\ WindowFits) =>
        /\ ret.some
        /\ \A k \in 1..2 :
              \/ 2 * ret.val[k] = 2 * MonitorOrigin[k] + (MonitorSize[k] - WindowSize[k])
              \/ ret.val[k] = MonitorOrigin[k] + (MonitorSize[k] - WindowSize[k]) \div 2

\* C16 amended: for a window that fits the monitor, the position is on each axis
\* monitor_origin + (monitor_physical_size - window_physical_size) / 2 rounded
\* to the nearest integer, a half going away from zero; monitor (1920, 1080) at
\* (0, 0) with scale factor 1 and logical window (800, 600) give (560, 240).
C16_CenteredRounded ==
    (CenteredCase /\ WindowFits) =>
        /\ ret.some
        /\ \A k \in 1..2 :
              NearestHalf(ret.val[k],
                          2 * MonitorOrigin[k] + (MonitorSize[k] - WindowSize[k]))
        /\ ( /\ MonitorSize = <<1920, 1080>>
             /\ MonitorOrigin = <<0, 0>>
             /\ ScaleFactor = ScaleUnit
             /\ LogicalSize = <<800, 600>> ) => ret = Some(<<560, 240>>)

\* monitor D, 1281x1081 at (-1281, -7) with scale factor 1.5, and the logical
\* window (800, 600): both differences are odd, -1240.5 goes to -1241 and 83.5
\* to 84
C16_Witness ==
    /\ CenteredCase
    /\ WindowFits
    /\ MonitorOrigin = <<-1281, -7>>
    /\ WindowSize = <<1200, 900>>
    /\ ret = Some(<<-1241, 84>>)

\* C17 as stated: on an axis where the window's logical size is larger than the
\* monitor's physical size the position is the monitor origin, for every scale
\* factor.
C17_Original ==
    CenteredCase =>
        \A k \in 1..2 : LogicalSize[k] > MonitorSize[k] => ret.val[k] = MonitorOrigin[k]

\* C17 amended: on an axis where the window's physical size (its logical size
\* times the scale factor) is at least the monitor's physical size, so wherever
\* its logical size is larger and the scale factor is at least 1, the position
\* is the monitor origin; the offset from the monitor origin is never negative.
C17_Saturating ==
    CenteredCase =>
        /\ ret.some
        /\ \A k \in 1..2 :
              /\ WindowSize[k] >= MonitorSize[k] => ret.val[k] = MonitorOrigin[k]
              /\ (LogicalSize[k] > MonitorSize[k] /\ ScaleFactor >= ScaleUnit) =>
                    ret.val[k] = MonitorOrigin[k]
              /\ ret.val[k] >= MonitorOrigin[k]

\* a window wider than monitor D and less high: the x position is the origin
\* of the monitor, the y position is below it
C17_Witness ==
    /\ CenteredCase
    /\ MonitorOrigin = <<-1281, -7>>
    /\ LogicalSize[1] > MonitorSize[1]
    /\ WindowSize[2] < MonitorSize[2]
    /\ ret.val[1] = -1281
    /\ ret.val[2] > -7

\* C18: winit_window_position returns None for Automatic and Some((x, y)) for
\* At(x, y), whatever the directory, the primary monitor, the current monitor
\* and the resolution are, and looks no monitor up.
C18_NoMonitorConsulted ==
    PositionCalled =>
        /\ call.position.kind = "Automatic" => (ret = None /\ queries = <<>>)
        /\ call.position.kind = "At" =>
              /\ ret = [some |-> TRUE, val |-> call.position.at]
              /\ queries = <<>>

\* At with a primary monitor whose origin is not (0, 0), a current monitor and
\* a directory at hand: the point itself
C18_Witness ==
    /\ PositionCalled
    /\ call.position.kind = "At"
    /\ call.primary_monitor = Some(MonitorD)
    /\ call.current_monitor.some
    /\ call.monitors # <<>>
    /\ ret = Some(<<-10, 20>>)

\* the last call was create_window in Windowed mode and sent a creation request
WindowedRequested ==
    /\ call.op = "create_window"
    /\ request.some
    /\ call.window.mode.kind = "Windowed"

\* what winit_window_position returns for the arguments create_window gives it
PositionAtCreation ==
    winit_window_position(call.window.position, call.window.resolution,
                          call.monitors, call.primary_monitor, None)

\* C19: for Centered, winit_window_position returns None when the selection
\* resolves to no monitor and when the monitor reports no current video mode,
\* Some position otherwise; in create_window in Windowed mode, when it returns
\* None the creation request carries no position and is sent, the window being
\* created when the platform accepts it.
C19_CenteredNone ==
    /\ (PositionCalled /\ call.position.kind = "Centered") =>
          IF ~CenterMonitor.some THEN ret = None
          ELSE IF ~CenterMonitor.val.current_video_mode.some THEN ret = None
          ELSE ret.some
    /\ (WindowedRequested /\ ~PositionAtCreation.some) =>
          /\ request.val.position = None
          /\ RequestSent
          /\ PlatformCreated => ret.ok

\* create_window in Windowed mode, centered on a monitor that reports no
\* current video mode: no position in the request, the window created
C19_Witness ==
    /\ WindowedRequested
    /\ call.window.position.kind = "Centered"
    /\ Len(queries) = 3
    /\ queries[3].call = "current_video_mode"
    /\ queries[3].res = "None"
    /\ request.val.position = None
    /\ ret.ok

-----------------------------------------------------------------------------
(* Properties of the error paths of create_window *)

\* the WinRT single-window guard stopped the last create_window call
GuardStopped == winrt /\ DOMAIN pre.windows # {} /\ trace = <<>>

\* C20: create_window returns Err only when the platform creation call returned
\* an error (or the WinRT single-window guard stopped the call), whatever the
\* window mode, the placement and the directory; in every other case it
\* returns Ok with the window registered.
C20_ResolutionNeverFatal ==
    call.op = "create_window" =>
        /\ ~ret.ok =>
              \/ PlatformCreateFailed /\ ret.err = RequestError(trace[1].res, "create_window")
              \/ GuardStopped
        /\ (~PlatformCreateFailed /\ ~GuardStopped) =>
              /\ ret.ok
              /\ get_window_in(Maps, call.entity) = Some(ret.val)
              /\ get_window_entity_in(Maps, ret.val.id) = Some(call.entity)

\* Fullscreen on an entity that owns no monitor, and Windowed centered on a
\* selection that resolves to none: a lookup answered None and the window is
\* created and registered
C20_Witness ==
    /\ call.op = "create_window"
    /\ queries # <<>>
    /\ queries[Len(queries)].call = "select_monitor"
    /\ queries[Len(queries)].arg = "Entity"
    /\ queries[Len(queries)].res = "None"
    /\ ret.ok
    /\ call.entity \in DOMAIN entity_to_winit

-----------------------------------------------------------------------------
(* Properties of the cursor calls of create_window *)

\* the cursor policy of the last create_window call
Policy == call.cursor_options.grab_mode

HittestRequests == {i \in 1..Len(trace) : trace[i].call = "set_cursor_hittest"}
VisibleRequests == {i \in 1..Len(trace) : trace[i].call = "set_cursor_visible"}

Insertions == {i \in 1..Len(trace) : trace[i].call = "insert"}

\* C23: in a successful create_window call the platform creation request comes
\* first, then the cursor calls (grab, then cursor visibility, then hit-test),
\* and the insertions into entity_to_winit, winit_to_entity and windows are the
\* last three steps, in this order; a call whose platform creation request did
\* not succeed inserts nothing and leaves the maps as they were.
C23_CreateOrder ==
    call.op = "create_window" =>
        /\ ret.ok =>
              LET n == Len(trace)
              IN  /\ trace[1] = [call |-> "create_window", arg |-> "", res |-> "Ok"]
                  /\ Insertions = {n - 2, n - 1, n}
                  /\ trace[n - 2].arg = "entity_to_winit"
                  /\ trace[n - 1].arg = "winit_to_entity"
                  /\ trace[n].arg = "windows"
                  /\ \A g \in GrabRequests, v \in VisibleRequests : 1 < g /\ g < v
                  /\ \A v \in VisibleRequests, h \in HittestRequests : v < h
                  /\ \A c \in GrabRequests \cup VisibleRequests \cup HittestRequests :
                        1 < c /\ c < n - 2
        /\ ~PlatformCreated => (Insertions = {} /\ Maps = pre)

\* a creation with two grab requests and a hit-test request: nine steps, the
\* insertions last
C23_Witness ==
    /\ call.op = "create_window"
    /\ ret.ok
    /\ Cardinality(GrabRequests) = 2
    /\ HittestRequests # {}
    /\ Len(trace) = 9
    /\ Insertions = {7, 8, 9}

-----------------------------------------------------------------------------
(* Properties of the registry: duplicate creation, id reuse, the WinRT guard *)

\* the last call was create_window on an entity that was registered
DuplicateCreate ==
    /\ call.op = "create_window"
    /\ call.entity \in DOMAIN pre.entity_to_winit

\* the id recorded for the entity of the last call when the call started
RecordedId == pre.entity_to_winit[call.entity]

\* the entity of the last call maps to the new id, and the handle and the
\* reverse entry of the id recorded before remain
OverwrittenAndLeaked ==
    /\ ret.ok
    /\ ret.val.id # RecordedId
    /\ entity_to_winit[call.entity] = ret.val.id
    /\ RecordedId \in DOMAIN windows
    /\ windows[RecordedId] = pre.windows[RecordedId]
    /\ get_window_entity_in(Maps, RecordedId) = Some(call.entity)

\* the ids other than the recorded one whose reverse entry named the entity
\* of the last call when the call started
LeakedIds ==
    {i \in DOMAIN pre.winit_to_entity :
        pre.winit_to_entity[i] = call.entity /\ i # RecordedId}

\* remove_window left the leaked ids where they were
LeakSurvivesRemove ==
    \A i \in LeakedIds :
        /\ get_window_entity_in(Maps, i) = Some(call.entity)
        /\ i \in DOMAIN windows
        /\ windows[i] = pre.windows[i]

\* C25 as stated: create_window on a registered entity is not rejected: when
\* the platform creates the window it succeeds, the entity maps to the new id
\* and the entries of the id recorded before remain; a later remove_window of
\* the entity does not remove them.
C25_Original ==
    /\ (DuplicateCreate /\ ~PlatformCreateFailed) => OverwrittenAndLeaked
    /\ RemovedRegistered => LeakSurvivesRemove

\* C25 amended: on every build but WinRT/UWP create_window on a registered
\* entity is not rejected: when the platform creates the window it succeeds,
\* the entity maps to the new id and the handle and the reverse entry of the id
\* recorded before remain, so that id still resolves to the entity and a later
\* remove_window of the entity does not remove it; on WinRT/UWP the call is
\* rejected by the single-window guard and the maps stay as they were.
C25_OverwriteAndLeak ==
    /\ (DuplicateCreate /\ ~PlatformCreateFailed) =>
          IF winrt
          THEN /\ ret = Err(RequestError("NotSupported", "single_window"))
               /\ Maps = pre
          ELSE OverwrittenAndLeaked
    /\ RemovedRegistered => LeakSurvivesRemove

\* an entity created twice was removed: the id of its first window still
\* resolves to it and its first handle is still stored
C25_Witness ==
    /\ RemovedRegistered
    /\ ret.some
    /\ LeakedIds # {}
    /\ call.entity \notin DOMAIN entity_to_winit
    /\ \E i \in DOMAIN windows : get_window_entity_in(Maps, i) = Some(call.entity)

\* C26: in every reachable state, whatever entity the caller names and whatever
\* id the platform returns, windows and winit_to_entity have the same keys.
C26_HandlesAndReverseAgree == DOMAIN windows = DOMAIN winit_to_entity

\* the platform gave a new window the id of a stored window of another entity,
\* and a third call removed one of the two entities
C26_Witness ==
    /\ call.op = "remove_window"
    /\ \E e \in DOMAIN entity_to_winit : entity_to_winit[e] \notin DOMAIN windows
    /\ DOMAIN windows = DOMAIN winit_to_entity

\* C27: when the platform never returns the id of a stored window, every entity
\* in entity_to_winit maps to an id in windows, duplicate creation included:
\* get_window returns Some for every registered entity.
C27_NoDanglingEntity ==
    /\ \A e \in DOMAIN entity_to_winit :
          /\ entity_to_winit[e] \in DOMAIN windows
          /\ get_window_in(Maps, e).some
    /\ (call.op = "get_window" /\ call.entity \in DOMAIN entity_to_winit) => ret.some

\* get_window on an entity that was created twice returns its second handle
C27_Witness ==
    /\ overwritten
    /\ call.op = "get_window"
    /\ call.entity \in DOMAIN entity_to_winit
    /\ ret.some
    /\ ret.val.serial = 2
    /\ Cardinality(DOMAIN windows) = 2

\* the registered entities other than the entity of the last call whose id is
\* not the id recorded for it
OtherEntities ==
    {b \in DOMAIN pre.entity_to_winit \ {call.entity} :
        call.entity \in DOMAIN pre.entity_to_winit =>
            pre.entity_to_winit[b] # RecordedId}

\* C28: remove_window(a) changes only the entries of the id recorded for a: for
\* every other registered entity b with another id, get_window(b) and
\* get_window_entity(id of b) are what they were, and so is every entry of
\* windows and winit_to_entity under another id; get_window and
\* get_window_entity change no map.
C28_RemoveFrame ==
    /\ call.op = "remove_window" =>
          /\ \A b \in OtherEntities :
                /\ get_window_in(Maps, b) = get_window_in(pre, b)
                /\ get_window_entity_in(Maps, pre.entity_to_winit[b])
                     = get_window_entity_in(pre, pre.entity_to_winit[b])
          /\ \A b \in DOMAIN pre.entity_to_winit \ {call.entity} :
                b \in DOMAIN entity_to_winit /\ entity_to_winit[b] = pre.entity_to_winit[b]
          /\ \A i \in WindowIds :
                (call.entity \in DOMAIN pre.entity_to_winit => i # RecordedId) =>
                    /\ get_window_entity_in(Maps, i) = get_window_entity_in(pre, i)
                    /\ i \in DOMAIN windows <=> i \in DOMAIN pre.windows
                    /\ i \in DOMAIN pre.windows => windows[i] = pre.windows[i]
    /\ call.op \in {"get_window", "get_window_entity"} => Maps = pre

\* an entity was removed while another entity holds a window under another id:
\* the other entity's window and reverse entry are as before
C28_Witness ==
    /\ RemovedRegistered
    /\ ret.some
    /\ OtherEntities # {}
    /\ \A b \in OtherEntities :
          get_window_in(Maps, b).some /\ get_window_in(Maps, b) = get_window_in(pre, b)

\* C29: on the WinRT/UWP build create_window called while the registry holds a
\* window returns a NotSupported error, sends no creation request and changes
\* no map, so the registry never holds more than one window; called on an
\* empty registry, after a removal included, it is accepted.
C29_SingleWindow ==
    winrt =>
        /\ Cardinality(DOMAIN windows) <= 1
        /\ (call.op = "create_window" /\ DOMAIN pre.windows # {}) =>
              /\ ~ret.ok
              /\ ret.err.kind = "NotSupported"
              /\ trace = <<>>
              /\ request = None
              /\ Maps = pre
        /\ (call.op = "create_window" /\ DOMAIN pre.windows = {} /\ ~PlatformCreateFailed) =>
              (ret.ok /\ RequestSent /\ DOMAIN windows = {ret.val.id})

\* a window was created, removed, and a second one accepted; a further
\* create_window is rejected without a request
C29_Witness ==
    /\ winrt
    /\ call.op = "create_window"
    /\ nextSerial = 3
    /\ DOMAIN pre.windows # {}
    /\ ~ret.ok
    /\ trace = <<>>

====
